---- MODULE Spec2Model ----
(***************************************************************************)
(* A model of src/_PyPolyChord.cpp: the Python extension module that lets  *)
(* the PolyChord engine call a Python likelihood and a Python prior.       *)
(*                                                                         *)
(* The process is single threaded (the interpreter lock is never given up  *)
(* by this file), so its state is a call stack of run_PyPolyChord frames.  *)
(* The engine (polychord_c_interface, declared in interfaces.h) is an      *)
(* environment: per sampled point it calls prior() and then                *)
(* loglikelihood() on buffers of its own, any number of times, and then    *)
(* returns.  A bridge is split where it invokes the user's callable,       *)
(* because that callable is user code that may call run() again.           *)
(*                                                                         *)
(* Doubles are modelled by small integers; ErrDouble is the -1.0 that      *)
(* PyFloat_AsDouble returns when it fails.                                 *)
(***************************************************************************)
EXTENDS Integers, Sequences, FiniteSets

\* ------------------------------------------------------------------ bounds
MaxDim == 2          \* largest nDims a run is started with
MaxDerived == 1      \* largest nDerived a run is started with
MaxOver == 1         \* a returned list is at most this much longer than asked
MaxDepth == 2        \* nesting of run() calls (re-entry from a callable)
MaxLen == 3          \* longest buffer of the converter round trip

Doubles == {0, 5}    \* the values the engine and the user compute with
ErrDouble == 0 - 1   \* PyFloat_AsDouble's error return, -1.0
Callables == {"f", "g"}
NULL == "NULL"

\* ---------------------------------------------------------- Python objects
PyNULL == [kind |-> "NULL", val |-> 0, items |-> <<>>]
PyStr == [kind |-> "str", val |-> 0, items |-> <<>>]
PyFloat_FromDouble(d) == [kind |-> "float", val |-> d, items |-> <<>>]
PyTuple(s) == [kind |-> "tuple", val |-> 0, items |-> s]
PyList(s) == [kind |-> "list", val |-> 0, items |-> s]

\* PyList_New(n): a list of n empty (NULL) slots.
PyList_New(n) == PyList([i \in 1..n |-> PyNULL])

\* PyList_Size: the length of a list; -1 (and an error set) for anything else.
PyList_Size(o) == IF o.kind = "list" THEN Len(o.items) ELSE 0 - 1

\* PyFloat_AsDouble: the value of a float; -1.0 (and an error set) for an
\* object that has no float value, and for NULL.
PyFloat_AsDouble(o) == IF o.kind = "float" THEN o.val ELSE ErrDouble

Zeros(n) == [i \in 1..n |-> 0]

\* ------------------------------------------------------- Buffer Converter
\* convert_list(double* array, PyObject* list): every slot of the list gets a
\* new float made from the array element at the same index.
convert_list_to_list(array, list) ==
    [list EXCEPT !.items = [i \in 1..PyList_Size(list) |-> PyFloat_FromDouble(array[i])]]

\* The same loop stopping one element early (i < PyList_Size(list) - 1).
convert_list_to_array_short(list, mem) ==
    [i \in 1..Len(mem) |->
        IF i <= PyList_Size(list) - 1 THEN PyFloat_AsDouble(list.items[i]) ELSE mem[i]]

\* convert_list(PyObject* list, double* array): array[i] is written for every
\* i below PyList_Size(list); the function is given no length of the array.
\* mem is the memory that starts at array: the buffer, then what lies past it.
convert_list_to_array(list, mem) ==
    [i \in 1..Len(mem) |->
        IF i <= PyList_Size(list) THEN PyFloat_AsDouble(list.items[i]) ELSE mem[i]]

\* ------------------------------------------------------------------ state
VARIABLES
    python_loglikelihood,   \* the likelihood slot: a callable or NULL
    python_prior,           \* the prior slot: a callable or NULL
    stack,                  \* the active run_PyPolyChord frames, innermost last
    crashed,                \* the process has been terminated by a fault
    ob_refcnt,              \* reference count of each callable object
    lastRun,                \* what the step just taken did, if it was run()
    lastCall,               \* what the step just taken did, if a bridge returned
    conv                    \* the converter round trip: its buffers and position

vars == <<python_loglikelihood, python_prior, stack, crashed, ob_refcnt,
          lastRun, lastCall, conv>>

\* The references a bridge call owns, by the local variable that holds them.
Locals == {"list_theta", "list_phi", "list_cube", "pylogL"}
NoRefs == [l \in Locals |-> 0]
Py_INCREF(refs, l) == [refs EXCEPT ![l] = @ + 1]
Py_DECREF(refs, l) == [refs EXCEPT ![l] = @ - 1]

NoRun == [ev |-> "none", nested |-> FALSE, lik_before |-> NULL, pri_before |-> NULL,
          lik_arg |-> NULL, pri_arg |-> NULL]
NoCall == [op |-> "none", res |-> PyNULL, ret |-> 0, nDims |-> 0, nDerived |-> 0,
           cube0 |-> <<>>, cube1 |-> <<>>, theta0 |-> <<>>, theta1 |-> <<>>,
           past0 |-> <<>>, past1 |-> <<>>, phi0 |-> <<>>, phi1 |-> <<>>,
           refs |-> NoRefs, fault |-> FALSE]
ConvIdle == [pc |-> "idle", n |-> 0, buf0 |-> <<>>, buf |-> <<>>, list |-> PyNULL,
             buf2 |-> <<>>]

\* A bridge call that ended in the termination of the process.
Faulted(op, r) == [NoCall EXCEPT !.op = op, !.res = r, !.fault = TRUE]

Top == stack[Len(stack)]
SetTop(f) == [stack EXCEPT ![Len(stack)] = f]

\* ------------------------------------------------------ Run Entry Point
NumArgs == 23        \* the format units of "OOiiiiiididiiiiiiiiiiss"

\* The argument tuples run() is called with: how many arguments it holds, the
\* two objects at its head, nDims and nDerived, and the position of the first
\* argument that does not convert under its format unit (0: none). The units
\* "O" take any object, so that position is 3 or more.
ArgTuples ==
    [len : {NumArgs - 1, NumArgs}, lik : Callables, pri : Callables,
     nDims : 0..MaxDim, nDerived : 0..MaxDerived, bad : {0, 3, NumArgs}]

\* PyArg_ParseTuple(args, "OO...", &python_loglikelihood, &python_prior, ...):
\* a tuple of the wrong length is refused before anything is stored; then
\* the arguments are converted from left to right, each one stored through
\* its pointer as soon as it converts, up to the first one that does not.
PyArg_ParseTuple(args, lik0, pri0) ==
    IF args.len # NumArgs
    THEN [ok |-> FALSE, lik |-> lik0, pri |-> pri0]
    ELSE [ok |-> args.bad = 0,
          lik |-> IF args.bad = 0 \/ args.bad > 1 THEN args.lik ELSE lik0,
          pri |-> IF args.bad = 0 \/ args.bad > 2 THEN args.pri ELSE pri0]

\* The frame of a run whose engine call is in progress. The buffers of the
\* point being sampled belong to the engine and exist from the prior call
\* to the return of the likelihood call.
NewFrame(args) ==
    [nDims |-> args.nDims, nDerived |-> args.nDerived, pc |-> "engine",
     cube |-> <<>>, theta |-> <<>>, past |-> <<>>, phi |-> <<>>,
     list_theta |-> PyNULL, list_phi |-> PyNULL, list_cube |-> PyNULL,
     refs |-> NoRefs]

\* run_PyPolyChord up to its call of the engine. It is called from Python:
\* at top level, or by a user callable that a bridge is waiting for.
Run(args) ==
    /\ ~crashed
    /\ Len(stack) < MaxDepth
    /\ IF stack = <<>> THEN TRUE ELSE Top.pc \in {"in_prior", "in_lik"}
    /\ LET p == PyArg_ParseTuple(args, python_loglikelihood, python_prior)
       IN /\ python_loglikelihood' = p.lik
          /\ python_prior' = p.pri
          /\ stack' = IF p.ok THEN Append(stack, NewFrame(args)) ELSE stack
          /\ lastRun' = [ev |-> IF p.ok THEN "engine" ELSE "failed",
                         nested |-> stack # <<>>,
                         lik_before |-> python_loglikelihood,
                         pri_before |-> python_prior,
                         lik_arg |-> args.lik, pri_arg |-> args.pri]
    /\ lastCall' = NoCall
    /\ UNCHANGED <<crashed, ob_refcnt, conv>>

\* polychord_c_interface returns; run_PyPolyChord returns None.
RunReturn ==
    /\ ~crashed
    /\ stack # <<>>
    /\ Top.pc = "engine"
    /\ stack' = SubSeq(stack, 1, Len(stack) - 1)
    /\ lastRun' = [NoRun EXCEPT !.ev = "returned", !.nested = Len(stack) > 1,
                   !.lik_before = python_loglikelihood, !.pri_before = python_prior]
    /\ lastCall' = NoCall
    /\ UNCHANGED <<python_loglikelihood, python_prior, crashed, ob_refcnt, conv>>

\* ----------------------------------------------------------- the callables
\* What a user callable can hand back: NULL when it raised, else any object.
Items == {PyFloat_FromDouble(d) : d \in Doubles} \cup {PyStr}
ListsUpTo(S, n) == UNION {[1..k -> S] : k \in 0..n}

PriorResults(nDims) ==
    {PyNULL, PyTuple([i \in 1..nDims |-> PyFloat_FromDouble(5)])}
        \cup {PyList(s) : s \in ListsUpTo(Items, nDims + MaxOver)}

\* The two-part result (logL, phiOut) is a tuple of a float and a list.
LikResults(nDerived) ==
    {PyNULL, PyStr} \cup {PyFloat_FromDouble(d) : d \in Doubles}
        \cup {PyTuple(<<PyFloat_FromDouble(d), PyList(s)>>) :
                d \in Doubles,
                s \in ListsUpTo({PyFloat_FromDouble(e) : e \in Doubles},
                                nDerived + MaxOver)}

\* A reference returned by PyObject_CallFunctionObjArgs is owned by the
\* caller, unless the call failed and returned NULL.
NewReference(refs, l, o) == IF o.kind = "NULL" THEN refs ELSE Py_INCREF(refs, l)

\* ------------------------------------------------------------ Prior Bridge
\* prior(), lines 73-78: list_cube is made from cube and given to the callable.
prior_call(f) ==
    [f EXCEPT !.list_cube = convert_list_to_list(f.cube, PyList_New(f.nDims)),
              !.refs = Py_INCREF(f.refs, "list_cube"),
              !.pc = "in_prior"]

\* prior() with the result converted into cube instead of theta.
prior_return_into_cube(f, r) ==
    LET mem == convert_list_to_array(r, f.cube \o f.past)
        got == NewReference(f.refs, "list_theta", r)
    IN [f EXCEPT !.cube = SubSeq(mem, 1, Len(f.cube)),
                 !.past = SubSeq(mem, Len(f.cube) + 1, Len(mem)),
                 !.list_cube = PyNULL,
                 !.refs = Py_DECREF(Py_DECREF(got, "list_cube"), "list_theta"),
                 !.pc = "after_prior"]

\* prior(), lines 78-86: the callable's result is list_theta; it is written
\* to the memory at theta and both lists are released.
prior_return(f, r) ==
    LET mem == convert_list_to_array(r, f.theta \o f.past)
        got == NewReference(f.refs, "list_theta", r)
    IN [f EXCEPT !.theta = SubSeq(mem, 1, Len(f.theta)),
                 !.past = SubSeq(mem, Len(f.theta) + 1, Len(mem)),
                 !.list_cube = PyNULL,
                 !.refs = Py_DECREF(Py_DECREF(got, "list_cube"), "list_theta"),
                 !.pc = "after_prior"]

\* How prior() can end for this result. PyList_Size(NULL) reads through the
\* null pointer: the process is terminated. A list longer than nDims makes
\* convert_list write past the end of theta, which is undefined: the write
\* lands in the memory that follows, or the process is terminated.
prior_outcomes(f, r) ==
    IF r.kind = "NULL" THEN {"crash"}
    ELSE IF PyList_Size(r) > f.nDims THEN {"go", "crash"}
    ELSE {"go"}

\* The engine samples a point: it fills cube and calls prior(cube, theta, nDims).
PriorCall(cube) ==
    /\ ~crashed
    /\ stack # <<>>
    /\ Top.pc = "engine"
    /\ stack' = SetTop(prior_call([Top EXCEPT !.cube = cube,
                                              !.theta = Zeros(Top.nDims),
                                              !.past = Zeros(MaxOver),
                                              !.phi = Zeros(Top.nDerived)]))
    /\ lastRun' = NoRun
    /\ lastCall' = NoCall
    /\ UNCHANGED <<python_loglikelihood, python_prior, crashed, ob_refcnt, conv>>

\* The prior callable returns r (NULL: it raised) and prior() runs to its end;
\* the engine is then done with cube. A fault terminates the process, which
\* ends every run in progress.
PriorReturn(r, ub) ==
    /\ ~crashed
    /\ stack # <<>>
    /\ Top.pc = "in_prior"
    /\ ub \in prior_outcomes(Top, r)
    /\ LET g == prior_return(Top, r)
       IN /\ stack' = IF ub = "crash" THEN <<>>
                      ELSE SetTop([g EXCEPT !.cube = <<>>])
          /\ crashed' = (ub = "crash")
          /\ lastCall' =
                IF ub = "crash" THEN Faulted("prior", r)
                ELSE [NoCall EXCEPT !.op = "prior", !.res = r,
                            !.nDims = Top.nDims, !.nDerived = Top.nDerived,
                            !.cube0 = Top.cube, !.cube1 = g.cube,
                            !.theta0 = Top.theta, !.theta1 = g.theta,
                            !.past0 = Top.past, !.past1 = g.past,
                            !.phi0 = Top.phi, !.phi1 = g.phi,
                            !.refs = g.refs]
    /\ lastRun' = NoRun
    /\ UNCHANGED <<python_loglikelihood, python_prior, ob_refcnt, conv>>

\* ------------------------------------------------------- Likelihood Bridge
\* loglikelihood(), lines 47-56: list_theta and list_phi are made from the
\* engine's buffers and given to the callable.
loglikelihood_call(f) ==
    [f EXCEPT !.list_theta = convert_list_to_list(f.theta, PyList_New(f.nDims)),
              !.list_phi = convert_list_to_list(f.phi, PyList_New(f.nDerived)),
              !.refs = Py_INCREF(Py_INCREF(f.refs, "list_theta"), "list_phi"),
              !.pc = "in_lik"]

\* loglikelihood(), lines 58-66: the value returned to the engine.
loglikelihood_value(r) == PyFloat_AsDouble(r)

\* loglikelihood() without its Py_DECREF(list_phi).
loglikelihood_return_leak(f, r) ==
    LET got == NewReference(f.refs, "pylogL", r)
    IN [f EXCEPT !.list_theta = PyNULL,
                 !.list_phi = PyNULL,
                 !.refs = Py_DECREF(Py_DECREF(got, "list_theta"), "pylogL"),
                 !.pc = "engine"]

\* loglikelihood(), lines 56-64: the callable's result is pylogL; the three
\* objects are released. Neither theta nor phi is written.
loglikelihood_return(f, r) ==
    LET got == NewReference(f.refs, "pylogL", r)
    IN [f EXCEPT !.list_theta = PyNULL,
                 !.list_phi = PyNULL,
                 !.refs = Py_DECREF(Py_DECREF(Py_DECREF(got, "list_theta"),
                                              "list_phi"), "pylogL"),
                 !.pc = "engine"]

\* How loglikelihood() can end for this result. PyFloat_AsDouble(NULL) returns
\* -1.0, and then Py_DECREF(NULL) writes through the null pointer: the process
\* is terminated.
loglikelihood_outcomes(r) == IF r.kind = "NULL" THEN {"crash"} ELSE {"go"}

\* The engine calls loglikelihood(theta, nDims, phi, nDerived) on the point.
LikCall ==
    /\ ~crashed
    /\ stack # <<>>
    /\ Top.pc = "after_prior"
    /\ stack' = SetTop(loglikelihood_call(Top))
    /\ lastRun' = NoRun
    /\ lastCall' = NoCall
    /\ UNCHANGED <<python_loglikelihood, python_prior, crashed, ob_refcnt, conv>>

\* The likelihood callable returns r and loglikelihood() runs to its end; the
\* engine takes the value and is done with the buffers of the point.
LikReturn(r, ub) ==
    /\ ~crashed
    /\ stack # <<>>
    /\ Top.pc = "in_lik"
    /\ ub \in loglikelihood_outcomes(r)
    /\ LET g == loglikelihood_return(Top, r)
       IN /\ stack' = IF ub = "crash" THEN <<>>
                      ELSE SetTop([g EXCEPT !.theta = <<>>, !.past = <<>>,
                                            !.phi = <<>>])
          /\ crashed' = (ub = "crash")
          /\ lastCall' =
                IF ub = "crash" THEN Faulted("loglikelihood", r)
                ELSE [NoCall EXCEPT !.op = "loglikelihood", !.res = r,
                            !.ret = loglikelihood_value(r),
                            !.nDims = Top.nDims, !.nDerived = Top.nDerived,
                            !.cube0 = Top.cube, !.cube1 = g.cube,
                            !.theta0 = Top.theta, !.theta1 = g.theta,
                            !.past0 = Top.past, !.past1 = g.past,
                            !.phi0 = Top.phi, !.phi1 = g.phi,
                            !.refs = g.refs]
    /\ lastRun' = NoRun
    /\ UNCHANGED <<python_loglikelihood, python_prior, ob_refcnt, conv>>

\* ---------------------------------------------------------- specification
Init ==
    /\ python_loglikelihood = NULL
    /\ python_prior = NULL
    /\ stack = <<>>
    /\ crashed = FALSE
    /\ ob_refcnt = [c \in Callables |-> 1]
    /\ lastRun = NoRun
    /\ lastCall = NoCall
    /\ conv = ConvIdle

\* nDims and nDerived of the innermost run, for the inputs of its bridges.
CurDims == IF stack = <<>> THEN 0 ELSE Top.nDims
CurDerived == IF stack = <<>> THEN 0 ELSE Top.nDerived

Next ==
    \/ \E args \in ArgTuples : Run(args)
    \/ RunReturn
    \/ \E cube \in [1..CurDims -> Doubles] : PriorCall(cube)
    \/ \E r \in PriorResults(CurDims), ub \in {"go", "crash"} : PriorReturn(r, ub)
    \/ LikCall
    \/ \E r \in LikResults(CurDerived), ub \in {"go", "crash"} : LikReturn(r, ub)

Spec == Init /\ [][Next]_vars

\* The same program when no user callable calls run(): run() is entered from
\* the top level only.
NextNoReentry ==
    \/ stack = <<>> /\ \E args \in ArgTuples : Run(args)
    \/ RunReturn
    \/ \E cube \in [1..CurDims -> Doubles] : PriorCall(cube)
    \/ \E r \in PriorResults(CurDims), ub \in {"go", "crash"} : PriorReturn(r, ub)
    \/ LikCall
    \/ \E r \in LikResults(CurDerived), ub \in {"go", "crash"} : LikReturn(r, ub)

SpecNoReentry == Init /\ [][NextNoReentry]_vars

\* ------------------------------------------- the converter on its own
\* The two conversions as the bridges use them, applied one after the other
\* to a buffer of n doubles: a list of n slots is made and filled from buf
\* (lines 48-49), then written to a second buffer of n doubles (line 81).
ToContainer ==
    /\ conv.pc = "start"
    /\ conv' = [conv EXCEPT !.list = convert_list_to_list(conv.buf, PyList_New(conv.n)),
                            !.pc = "listed"]
    /\ UNCHANGED <<python_loglikelihood, python_prior, stack, crashed, ob_refcnt,
                   lastRun, lastCall>>

FromContainer ==
    /\ conv.pc = "listed"
    /\ conv' = [conv EXCEPT !.buf2 = convert_list_to_array(conv.list, conv.buf2),
                            !.pc = "done"]
    /\ UNCHANGED <<python_loglikelihood, python_prior, stack, crashed, ob_refcnt,
                   lastRun, lastCall>>

\* Every buffer of up to MaxLen doubles, the error value among them, and a
\* second buffer of the same length holding anything.
InitConvert ==
    /\ python_loglikelihood = NULL
    /\ python_prior = NULL
    /\ stack = <<>>
    /\ crashed = FALSE
    /\ ob_refcnt = [c \in Callables |-> 1]
    /\ lastRun = NoRun
    /\ lastCall = NoCall
    /\ \E n \in 0..MaxLen :
         \E b \in [1..n -> Doubles \cup {ErrDouble}], b2 \in [1..n -> {0, ErrDouble}] :
            conv = [pc |-> "start", n |-> n, buf0 |-> b, buf |-> b, list |-> PyNULL,
                    buf2 |-> b2]

NextConvert == ToContainer \/ FromContainer

SpecConvert == InitConvert /\ [][NextConvert]_vars

\* ------------------------------------------------------------ properties
\* A list of exactly n floats, and the doubles it holds.
IsFloatList(o, n) ==
    /\ o.kind = "list"
    /\ Len(o.items) = n
    /\ \A i \in 1..n : o.items[i].kind = "float"
FloatValues(o) == [i \in 1..Len(o.items) |-> o.items[i].val]
\* The two-part result (logL, phiOut) of the likelihood callable.
IsTwoPart(o) ==
    /\ o.kind = "tuple"
    /\ Len(o.items) = 2
    /\ o.items[1].kind = "float"
    /\ o.items[2].kind = "list"
Returned(op) == lastCall.op = op /\ ~lastCall.fault

\* C1: when a call of run() that invoked the engine has returned, both
\* callable slots are unbound (NULL).
C1_SlotsUnboundAfterRun ==
    lastRun.ev = "returned" =>
        python_loglikelihood = NULL /\ python_prior = NULL

\* C2: a call of run() made while another run is active (from inside a user
\* callable) fails, does not invoke the engine, and leaves both slots as the
\* first run bound them.
C2_SecondRunRejected ==
    (lastRun.nested /\ lastRun.ev \in {"engine", "failed"}) =>
        /\ lastRun.ev = "failed"
        /\ python_loglikelihood = lastRun.lik_before
        /\ python_prior = lastRun.pri_before

\* C3: when the likelihood callable returns (logL, phiOut) with phiOut of
\* length nDerived, loglikelihood() returns logL and leaves phi = phiOut.
C3_TwoPartResult ==
    (/\ Returned("loglikelihood")
     /\ IsTwoPart(lastCall.res)
     /\ IsFloatList(lastCall.res.items[2], lastCall.nDerived)) =>
        /\ lastCall.ret = lastCall.res.items[1].val
        /\ lastCall.phi1 = FloatValues(lastCall.res.items[2])

\* C4: when the likelihood callable returns (logL, phiOut) with phiOut of a
\* length other than nDerived, the call ends in a failure: no value is
\* returned to the engine.
C4_LengthMismatchFails ==
    (/\ lastCall.op = "loglikelihood"
     /\ IsTwoPart(lastCall.res)
     /\ Len(lastCall.res.items[2].items) # lastCall.nDerived) =>
        lastCall.fault

C6_NoSubstitutedValue ==
    (lastCall.op = "loglikelihood" /\ lastCall.res.kind \in {"NULL", "str"}) =>
        lastCall.fault

\* C7: a buffer converted to a list and the list written to a second buffer
\* gives the second buffer the values of the first, in order, and leaves the
\* first buffer as it was.
C7_RoundTrip ==
    conv.pc = "done" => conv.buf2 = conv.buf0 /\ conv.buf = conv.buf0

\* C7, reached: the round trip of [0, 5, -1] into a buffer that held [-1, 0, 0].
C7_Witness ==
    /\ conv.pc = "done"
    /\ conv.buf0 = <<0, 5, ErrDouble>>
    /\ conv.buf2 = <<0, 5, ErrDouble>>
    /\ conv.list.kind = "list"

\* C8: prior() writes nothing past the end of theta, whatever the length of
\* the list the callable returned.
C8_NoWritePastTheta ==
    Returned("prior") => lastCall.past1 = lastCall.past0

\* C9: every reference a bridge call acquired (its lists, the callable's
\* result) is released exactly once by the time the call returns, no run
\* holds a bridge-owned reference between calls, and the reference counts of
\* the callables are what they were.
C9_NoLeak ==
    /\ (lastCall.op # "none" /\ ~lastCall.fault) => lastCall.refs = NoRefs
    /\ \A i \in 1..Len(stack) :
          stack[i].pc \in {"engine", "after_prior"} => stack[i].refs = NoRefs
    /\ ob_refcnt = [c \in Callables |-> 1]

\* C9, reached: a likelihood call has returned a float after a prior call.
C9_Witness ==
    /\ Returned("loglikelihood")
    /\ lastCall.res.kind = "float"
    /\ lastCall.nDims = 2
    /\ lastCall.nDerived = 1
    /\ lastCall.refs = NoRefs

\* C10: a call of run() whose arguments fail to parse leaves both slots
\* holding what they held before the call.
C10_FailedRunKeepsSlots ==
    lastRun.ev = "failed" =>
        /\ python_loglikelihood = lastRun.lik_before
        /\ python_prior = lastRun.pri_before

====
